---------------------------- MODULE Spec2Model ----------------------------
(***************************************************************************)
(* Question paper generator: the retry wrapper around the generation call, *)
(* the three tier generators (one-mark, six-mark, twelve-mark) with their  *)
(* persisted fingerprint histories, and the orchestrating loops of app.py. *)
(*                                                                         *)
(* Texts are strings, handled character by character the way the Python    *)
(* code handles them (strip, lower, split, startswith, "in").  A SHA-256   *)
(* digest is represented by the text that is hashed: the digest is treated *)
(* as injective on the normalized text.                                    *)
(***************************************************************************)
EXTENDS Integers, Sequences, FiniteSets, TLC

(***************************************************************************)
(* Python string primitives                                                *)
(***************************************************************************)
\* s[i-1:i]: the character at position i, "" outside the text
Ch(s, i) == IF i \in 1..Len(s) THEN SubSeq(s, i, i) ELSE ""

\* str.strip() and the regular expressions' \s: the whitespace characters a
\* string of the model can hold.  The last five are the vertical tab and the
\* separators FS, GS, RS, US (codes 11 and 28..31), written as they are.
IsSpace(c) == c \in {" ", "\n", "\t", "\r", "\f", "", "", "", "", ""}

IsDigit(c) == c \in {"0", "1", "2", "3", "4", "5", "6", "7", "8", "9"}

RECURSIVE FirstNonSpace(_, _)
FirstNonSpace(s, i) ==
  IF i > Len(s) \/ ~IsSpace(Ch(s, i)) THEN i ELSE FirstNonSpace(s, i + 1)

RECURSIVE LastNonSpace(_, _)
LastNonSpace(s, i) ==
  IF i < 1 \/ ~IsSpace(Ch(s, i)) THEN i ELSE LastNonSpace(s, i - 1)

\* str.strip()
Strip(s) == SubSeq(s, FirstNonSpace(s, 1), LastNonSpace(s, Len(s)))

RECURSIVE FindIn(_, _, _, _)
\* The first position in lo..hi at which p starts in s, 0 when there is none
\* (the range is halved so that long texts need no deep recursion)
FindIn(s, p, lo, hi) ==
  IF lo > hi THEN 0
  ELSE IF lo = hi THEN (IF SubSeq(s, lo, lo + Len(p) - 1) = p THEN lo ELSE 0)
  ELSE LET mid == (lo + hi) \div 2
           left == FindIn(s, p, lo, mid)
       IN  IF left # 0 THEN left ELSE FindIn(s, p, mid + 1, hi)

\* s.find(p, i - 1) + 1: the first position of p in s from i on, 0 when absent
FindFrom(s, p, i) == FindIn(s, p, i, Len(s) - Len(p) + 1)

\* str.find(p) + 1: the first position of p in s, 0 when absent
Find(s, p) == FindFrom(s, p, 1)

UpperChars == "ABCDEFGHIJKLMNOPQRSTUVWXYZ"

LowerChars == "abcdefghijklmnopqrstuvwxyz"

UpperSet == {Ch(UpperChars, i) : i \in 1..Len(UpperChars)}

LowerMap == [c \in UpperSet |-> Ch(LowerChars, Find(UpperChars, c))]

LowerCh(c) == IF c \in UpperSet THEN LowerMap[c] ELSE c

UpperMap == [c \in {Ch(LowerChars, i) : i \in 1..Len(LowerChars)} |->
               Ch(UpperChars, Find(LowerChars, c))]

UpperCh(c) == IF c \in DOMAIN UpperMap THEN UpperMap[c] ELSE c

RECURSIVE Upper(_)
\* str.upper()
Upper(s) == IF s = "" THEN "" ELSE UpperCh(Ch(s, 1)) \o Upper(Tail(s))

RECURSIVE Lower(_)
\* str.lower()
Lower(s) == IF s = "" THEN "" ELSE LowerCh(Ch(s, 1)) \o Lower(Tail(s))

\* p in s
Contains(s, p) == Find(s, p) # 0

\* s.startswith(p)
StartsWith(s, p) == Len(s) >= Len(p) /\ SubSeq(s, 1, Len(p)) = p

RECURSIVE Split(_, _)
\* s.split(sep), sep non-empty
Split(s, sep) ==
  LET i == Find(s, sep)
  IN  IF i = 0 THEN <<s>>
      ELSE <<SubSeq(s, 1, i - 1)>> \o Split(SubSeq(s, i + Len(sep), Len(s)), sep)

\* s.split(sep, 1)
Split1(s, sep) ==
  LET i == Find(s, sep)
  IN  IF i = 0 THEN <<s>>
      ELSE <<SubSeq(s, 1, i - 1), SubSeq(s, i + Len(sep), Len(s))>>

RECURSIVE Join(_, _)
\* sep.join(parts)
Join(parts, sep) ==
  IF parts = <<>> THEN ""
  ELSE IF Len(parts) = 1 THEN parts[1]
  ELSE parts[1] \o sep \o Join(Tail(parts), sep)

\* parts[:n]
Take(parts, n) == SubSeq(parts, 1, IF n < Len(parts) THEN n ELSE Len(parts))

Range(f) == {f[i] : i \in DOMAIN f}

(***************************************************************************)
(* Retry wrapper: retry_with_exponential_backoff                           *)
(***************************************************************************)
InitialDelay == 2

ExponentialBase == 2

MaxRetries == 5

MaxDelay == 60

\* Texts of the failures the wrapped call may raise (str(e)).
ErrTexts ==
  { "Groq API Error: 429 - too many requests",
    "Rate limit reached",
    "rate limit exceeded",
    "RATE LIMIT",
    "Groq API Error: 500 - internal" }

\* random.random() lies in [0, 1): the draws, in hundredths.
JitterDraws == {0, 50, 99}

\* is_rate_limit
IsRateLimit(text) ==
  Contains(text, "429") \/ Contains(text, "Rate limit") \/ Contains(text, "rate limit")

\* A wait drawn from the whole of [0, 2 * delay) instead of [0.5, 1.5) * delay
SleepTimeFullJitter(delay, draw) ==
  LET jittered == delay * 2 * draw
  IN  IF jittered > MaxDelay * 100 THEN MaxDelay * 100 ELSE jittered

\* sleep_time, in hundredths of a time unit: delay * (0.5 + random.random()),
\* capped at max_delay
SleepTime(delay, draw) ==
  LET jittered == delay * (50 + draw)
  IN  IF jittered > MaxDelay * 100 THEN MaxDelay * 100 ELSE jittered

(***************************************************************************)
(* History store: a JSON object, unit short name -> list of fingerprints   *)
(***************************************************************************)
\* {} : load_history() when the file does not exist
EmptyHistory == [k \in {} |-> <<>>]

\* history.get(unit_name, [])
HistGet(h, k) == IF k \in DOMAIN h THEN h[k] ELSE <<>>

\* A store rewritten with the current unit's list alone
HistPutAlone(h, k, v) == [x \in {k} |-> v]

\* history[unit_name] = unit_history
HistPut(h, k, v) == [x \in DOMAIN h \cup {k} |-> IF x = k THEN v ELSE h[x]]

\* hash_question / hash_six_mark_question / hash_twelve_mark_question:
\* sha256(q.strip().lower()), the digest standing for the text it digests
Hash(q) == Lower(Strip(q))

\* unit.split(':')[0].strip()
UnitName(unit) == Strip(Split(unit, ":")[1])

\* q[:n]
Prefix(s, n) == SubSeq(s, 1, IF n < Len(s) THEN n ELSE Len(s))

(***************************************************************************)
(* One-mark tier: generate_one_mark_questions                              *)
(***************************************************************************)
\* "if q.strip() and "Q" in q[:10]"
IsOneMarkCandidate(q) == Strip(q) # "" /\ Contains(Prefix(q, 10), "Q")

OneMarkIsNewAlways(q_hash, unit_history) == TRUE

\* "if q_hash not in unit_history"
OneMarkIsNew(q_hash, unit_history) == q_hash \notin Range(unit_history)

RECURSIVE OneMarkAcceptNoQuota(_, _, _, _, _)
OneMarkAcceptNoQuota(raw_questions, k, final_questions, unit_history, questions_per_unit) ==
  IF k > Len(raw_questions)
  THEN [final |-> final_questions, hist |-> unit_history]
  ELSE LET q == raw_questions[k]
           take == IsOneMarkCandidate(q) /\ OneMarkIsNew(Hash(q), unit_history)
       IN  OneMarkAcceptNoQuota(raw_questions, k + 1,
                                IF take THEN Append(final_questions, q) ELSE final_questions,
                                IF take THEN Append(unit_history, Hash(q)) ELSE unit_history,
                                questions_per_unit)

RECURSIVE OneMarkAccept(_, _, _, _, _)
\* The loop over raw_questions: [final |-> final_questions, hist |-> unit_history]
OneMarkAccept(raw_questions, k, final_questions, unit_history, questions_per_unit) ==
  IF k > Len(raw_questions)
  THEN [final |-> final_questions, hist |-> unit_history]
  ELSE LET q == raw_questions[k]
           take == IsOneMarkCandidate(q) /\ OneMarkIsNew(Hash(q), unit_history)
           final2 == IF take THEN Append(final_questions, q) ELSE final_questions
           hist2 == IF take THEN Append(unit_history, Hash(q)) ELSE unit_history
       IN  IF Len(final2) = questions_per_unit
           THEN [final |-> final2, hist |-> hist2]
           ELSE OneMarkAccept(raw_questions, k + 1, final2, hist2, questions_per_unit)

\* One line of an accepted question under "Renumber questions sequentially"
RenumberLine(line, i) ==
  IF StartsWith(Strip(line), "Q")
  THEN LET parts == Split1(line, ".")
       IN  IF Len(parts) > 1
           THEN "Q" \o ToString(i) \o "." \o parts[2]
           ELSE "Q" \o ToString(i) \o "."
  ELSE line

\* '\n'.join(question_lines) for question q numbered i
RenumberOneMark(q, i) ==
  LET lines == Split(q, "\n")
  IN  Join([j \in 1..Len(lines) |-> RenumberLine(lines[j], i)], "\n")

RECURSIVE OneMarkText(_, _)
\* questions_text before .strip(): every renumbered question followed by "\n\n"
OneMarkText(final_questions, start_qno) ==
  IF final_questions = <<>> THEN ""
  ELSE RenumberOneMark(final_questions[1], start_qno) \o "\n\n"
       \o OneMarkText(Tail(final_questions), start_qno + 1)

NoNewMessage(unit) ==
  "No new questions generated for " \o unit \o ". All were duplicates."

\* A generator that stores the unit's key before the call is made
OneMarkRaisedSavesKey(file, unit) ==
  HistPut(file, UnitName(unit), HistGet(file, UnitName(unit)))

\* generate_one_mark_questions when the call, or the reading of its response,
\* raises: the history file afterwards.  save_history is not reached.
OneMarkRaised(file, unit) == file

\* generate_one_mark_questions on a successful call that returned raw_text:
\* the history file afterwards, the returned text, and what was accepted.
GenerateOneMark(file, unit, questions_per_unit, start_qno, raw_text) ==
  LET history == file
      unit_name == UnitName(unit)
      before == HistGet(history, unit_name)
      raw_questions == Split(Strip(raw_text), "\n\n")
      acc == OneMarkAccept(raw_questions, 1, <<>>, before, questions_per_unit)
  IN  [ file |-> IF acc.final # <<>> THEN HistPut(history, unit_name, acc.hist)
                 ELSE file,
        ret |-> IF acc.final = <<>> THEN NoNewMessage(unit)
                ELSE Strip(OneMarkText(acc.final, start_qno)),
        final |-> acc.final,
        added |-> SubSeq(acc.hist, Len(before) + 1, Len(acc.hist)),
        raw_questions |-> raw_questions,
        before |-> before ]

(***************************************************************************)
(* Six-mark and twelve-mark tiers: parsing a response into questions       *)
(***************************************************************************)
RECURSIVE ParseLines(_, _, _, _)
\* "for line in lines": questions and current_question after lines[k..]
ParseLines(lines, k, questions, current_question) ==
  IF k > Len(lines)
  THEN IF current_question # "" THEN Append(questions, Strip(current_question))
       ELSE questions
  ELSE IF StartsWith(Strip(lines[k]), "Q")
  THEN ParseLines(lines, k + 1,
                  IF current_question # ""
                  THEN Append(questions, Strip(current_question)) ELSE questions,
                  Strip(lines[k]))
  ELSE IF current_question # ""
  THEN ParseLines(lines, k + 1, questions, current_question \o " " \o Strip(lines[k]))
  ELSE ParseLines(lines, k + 1, questions, current_question)

\* "Split questions": the questions of raw_text
ParseQuestions(raw_text) == ParseLines(Split(Strip(raw_text), "\n"), 1, <<>>, "")

RECURSIVE DigitRun(_, _)
\* The number of digits of s from position i on
DigitRun(s, i) == IF IsDigit(Ch(s, i)) THEN 1 + DigitRun(s, i + 1) ELSE 0

\* re.match(r'^Q\d+\.\d+', q): the length of the match, 0 when there is none
MalformedMatch(q) ==
  LET d1 == DigitRun(q, 2)
      d2 == DigitRun(q, 3 + d1)
  IN  IF StartsWith(q, "Q") /\ d1 >= 1 /\ Ch(q, 2 + d1) = "." /\ d2 >= 1
      THEN 2 + d1 + d2 ELSE 0

\* q_clean: the six-mark question q renumbered question_counter
SixMarkClean(q, question_counter) ==
  LET m == MalformedMatch(q)
      marker == "Q" \o ToString(question_counter) \o "."
  IN  IF m > 0
      THEN LET rest == SubSeq(q, m + 1, Len(q))
           IN  IF Strip(rest) # "" THEN marker \o Strip(rest) ELSE marker
      ELSE LET q_parts == Split1(q, ".")
           IN  IF Len(q_parts) > 1 THEN marker \o q_parts[2] ELSE marker

\* distribution: the questions of the units at positions 0..4
SixMarkDistribution == <<2, 2, 2, 1, 1>>

RECURSIVE SumTo(_, _)
SumTo(counts, n) == IF n = 0 THEN 0 ELSE counts[n] + SumTo(counts, n - 1)

\* "if len([q for _, count in distribution[:unit_idx+1] for _ in range(count)])
\*  == len(all_questions) - 11: break", unit_pos = unit_idx + 1
SixMarkQuotaMet(unit_pos, all_questions) ==
  SumTo(SixMarkDistribution, unit_pos) = Len(all_questions) - 11

\* "q_hash = hash_six_mark_question(q_clean)"
SixMarkFingerprint(q, q_clean) == Hash(q_clean)

\* "if q_hash not in unit_history"
SixMarkIsNew(q_hash, unit_history) == q_hash \notin Range(unit_history)

RECURSIVE SixMarkAccept(_, _, _, _, _, _)
\* "Filter and add to final list": all_questions, unit_history, question_counter
\* and the fingerprints added, after questions[k..]
SixMarkAccept(questions, k, unit_pos, all_questions, unit_history, question_counter) ==
  IF k > Len(questions)
  THEN [all |-> all_questions, hist |-> unit_history, counter |-> question_counter]
  ELSE LET q == questions[k]
           q_clean == SixMarkClean(q, question_counter)
           take == /\ q # ""
                   /\ StartsWith(q, "Q")
                   /\ SixMarkIsNew(SixMarkFingerprint(q, q_clean), unit_history)
           all2 == IF take THEN Append(all_questions, q_clean) ELSE all_questions
           hist2 == IF take THEN Append(unit_history, SixMarkFingerprint(q, q_clean))
                    ELSE unit_history
           counter2 == IF take THEN question_counter + 1 ELSE question_counter
       IN  IF take /\ SixMarkQuotaMet(unit_pos, all2)
           THEN [all |-> all2, hist |-> hist2, counter |-> counter2]
           ELSE SixMarkAccept(questions, k + 1, unit_pos, all2, hist2, counter2)

RECURSIVE Placeholders(_, _, _)
\* [f"Q{i}.{body}" for i in range(first, first + n)]
Placeholders(first, n, body) ==
  IF n <= 0 THEN <<>>
  ELSE <<"Q" \o ToString(first) \o "." \o body>> \o Placeholders(first + 1, n - 1, body)

SixMarkPadBody == " Explain the key concepts covered in this unit with suitable examples."

SixMarkTotal == 8

SixMarkFirst == 11

SixMarkResultUntruncated(all_questions, question_counter) ==
  Join(IF Len(all_questions) < SixMarkTotal
       THEN all_questions \o Placeholders(question_counter,
                                          SixMarkTotal - Len(all_questions),
                                          SixMarkPadBody)
       ELSE all_questions, "\n\n")

\* "Ensure we have exactly 8 questions": all_questions after
\* all_questions.extend(fallback_questions)
SixMarkPadded(all_questions, question_counter) ==
  IF Len(all_questions) < SixMarkTotal
  THEN all_questions \o Placeholders(question_counter,
                                     SixMarkTotal - Len(all_questions),
                                     SixMarkPadBody)
  ELSE all_questions

\* The return value: "\n\n".join(all_questions[:8])
SixMarkResult(all_questions, question_counter) ==
  Join(Take(SixMarkPadded(all_questions, question_counter), SixMarkTotal), "\n\n")

RECURSIVE FallbackText(_, _, _)
\* app.py: "for i in range(first, last + 1): text += f"Q{i}.{body}\n\n""
FallbackText(first, last, body) ==
  IF first > last THEN ""
  ELSE "Q" \o ToString(first) \o "." \o body \o "\n\n" \o FallbackText(first + 1, last, body)

\* app.py: the six-mark questions when generate_six_mark_questions raised
SixMarkFallback ==
  FallbackText(11, 18, " Explain the key concepts from the syllabus with examples.")

TwelveMarkPerUnit == 2

\* "if q_hash not in unit_history"
TwelveMarkIsNew(q_hash, unit_history) == q_hash \notin Range(unit_history)

\* "Renumber question"
TwelveMarkRenumber(q, question_counter) ==
  LET q_text == Split1(q, ".")
      marker == "Q" \o ToString(question_counter) \o "."
  IN  IF Len(q_text) > 1 THEN marker \o q_text[2] ELSE marker

RECURSIVE TwelveMarkAccept(_, _, _, _, _, _)
\* "Filter and add to final list" of generate_twelve_mark_questions
TwelveMarkAccept(questions, k, questions_added, all_questions, unit_history, question_counter) ==
  IF k > Len(questions)
  THEN [all |-> all_questions, hist |-> unit_history, counter |-> question_counter]
  ELSE LET q == questions[k]
           take == /\ q # ""
                   /\ StartsWith(q, "Q")
                   /\ questions_added < TwelveMarkPerUnit
                   /\ TwelveMarkIsNew(Hash(q), unit_history)
       IN  IF take
           THEN TwelveMarkAccept(questions, k + 1, questions_added + 1,
                                 Append(all_questions, TwelveMarkRenumber(q, question_counter)),
                                 Append(unit_history, Hash(q)), question_counter + 1)
           ELSE TwelveMarkAccept(questions, k + 1, questions_added, all_questions,
                                 unit_history, question_counter)

TwelveMarkPadBody ==
  " Discuss in detail the important concepts and applications from this unit with appropriate examples and analysis."

TwelveMarkTotal == 10

TwelveMarkFirst == 19

TwelveMarkResultPadFromFirst(all_questions, question_counter) ==
  Join(Take(all_questions \o Placeholders(TwelveMarkFirst,
                                          TwelveMarkTotal - Len(all_questions),
                                          TwelveMarkPadBody),
            TwelveMarkTotal), "\n\n")

\* "Ensure we have exactly 10 questions": all_questions after
\* all_questions.extend(fallback_questions)
TwelveMarkPadded(all_questions, question_counter) ==
  IF Len(all_questions) < TwelveMarkTotal
  THEN all_questions \o Placeholders(question_counter,
                                     TwelveMarkTotal - Len(all_questions),
                                     TwelveMarkPadBody)
  ELSE all_questions

\* The return value: "\n\n".join(all_questions[:10])
TwelveMarkResult(all_questions, question_counter) ==
  Join(Take(TwelveMarkPadded(all_questions, question_counter), TwelveMarkTotal), "\n\n")

\* app.py: the twelve-mark questions when generate_twelve_mark_questions raised
TwelveMarkFallback ==
  FallbackText(19, 28,
    " Discuss in detail the important concepts and applications from the syllabus with comprehensive analysis and examples.")

(***************************************************************************)
(* Bounds and inputs of the tier runs                                      *)
(***************************************************************************)
\* The syllabus has 1..MaxUnits units (1..MaxUnitsOneMark in a one-mark behaviour).
MaxUnits == 6

MaxUnitsOneMark == 3

\* At most MaxCalls generation calls are made in one behaviour
\* (MaxCallsOneMark in a one-mark behaviour).
MaxCalls == 6

MaxCallsOneMark == 4

\* "MCQs per Unit" ranges over 1..MaxQPU.
MaxQPU == 2

UnitText(k) == "UNIT " \o ToString(k) \o ": TOPIC " \o ToString(k)

UnitsOf(n) == [k \in 1..n |-> UnitText(k)]

\* The unit two sessions work on at the same time: one whose name json.dump
\* writes as it is, one whose name holds quotation marks, a backslash and a
\* control character (code 1, written as it is)
SessionUnits == { UnitText(1), "UNIT \"A\\B\": TOPIC" }

\* Texts the generation service may answer a one-mark request with.
OneMarkResponses ==
  { "Here are the MCQs:\n\nQ1. x?\nA. p\nQ.E.D. q\n\nQ2. y?\nA. p\nB. q\n\nQ3. z?\nA. p\nB. q",
    "Q2. y?\nA. p\nB. q\n\nQ2. Y?\nA. P\nB. Q",
    "Q1. No new questions?\nA. p\nB. q" }

\* Texts the generation service may answer a six-mark request with.
SixMarkResponses ==
  { "Q1. Explain a.\nQ2. Explain b.\nin detail\nQ17.5017 Explain clustering.",
    "Q1. Explain a.\nQ1. Explain a.\nQuestion two",
    "Sorry, nothing." }

\* Texts the generation service may answer a twelve-mark request with.
TwelveMarkResponses ==
  { "Q1. Discuss a.\nQ2. Discuss b.\nin detail\nQ3. Discuss c.",
    "Q1. Discuss a.\nQ1. DISCUSS A.\nQuestion two",
    "Sorry, nothing." }

\* What a generation call yields to the tier: the text of a well-formed
\* response, or a failure (retries exhausted, a non-retryable error, or a
\* response without choices[0].message.content).
Failed == [ok |-> FALSE, text |-> ""]

Outcomes(responses) == {[ok |-> TRUE, text |-> t] : t \in responses} \cup {Failed}

(***************************************************************************)
(* app.py: splitting the syllabus into units                               *)
(***************************************************************************)
\* The line boundaries of str.splitlines() a string of the model can hold:
\* line feed, carriage return, form feed, vertical tab, FS, GS, RS (codes 11
\* and 28..30 written as they are); "\r\n" is one boundary
IsLineBreak(c) == c \in {"\n", "\r", "\f", "", "", "", ""}

RECURSIVE LineEnd(_, _)
\* The position of the first line boundary of s from i on, Len(s) + 1 if none
LineEnd(s, i) == IF i > Len(s) \/ IsLineBreak(Ch(s, i)) THEN i ELSE LineEnd(s, i + 1)

RECURSIVE SplitLines(_)
\* str.splitlines()
SplitLines(text) ==
  IF text = "" THEN <<>>
  ELSE LET e == LineEnd(text, 1)
           w == IF Ch(text, e) = "\r" /\ Ch(text, e + 1) = "\n" THEN 2 ELSE 1
       IN  IF e > Len(text) THEN <<text>>
           ELSE <<SubSeq(text, 1, e - 1)>> \o SplitLines(SubSeq(text, e + w, Len(text)))

RECURSIVE SpaceRun(_, _)
\* The number of whitespace characters of s from position i on
SpaceRun(s, i) == IF i <= Len(s) /\ IsSpace(Ch(s, i)) THEN 1 + SpaceRun(s, i + 1) ELSE 0

IsRomanLetter(c) == c \in {"I", "V", "X", "L", "C", "D", "M"}

\* re.search(r"UNIT\s+[IVXLCDM]+", u) or re.search(r"UNIT\s+\d+", u)
UnitPatternMatches(u) ==
  \E i \in 1..(Len(u) - 3) :
    /\ SubSeq(u, i, i + 3) = "UNIT"
    /\ LET w == SpaceRun(u, i + 4)
           c == Ch(u, i + 4 + w)
       IN  w >= 1 /\ (IsRomanLetter(c) \/ IsDigit(c))

\* "UNIT" in line_upper and re.search(r"UNIT.*[IVXLCDM1-9]", line_upper)
UnitIndicatorMatches(u) ==
  \E i \in 1..(Len(u) - 3) :
    /\ SubSeq(u, i, i + 3) = "UNIT"
    /\ \E j \in (i + 4)..Len(u) :
         IsRomanLetter(Ch(u, j)) \/ (IsDigit(Ch(u, j)) /\ Ch(u, j) # "0")

\* is_unit_line
IsUnitLine(line) ==
  LET line_upper == Upper(line)
  IN  UnitPatternMatches(line_upper) \/ UnitIndicatorMatches(line_upper)

\* re.search(r"^\d+\s*(Hrs|Hours|hrs|hours)$", s)
IsHourLine(s) ==
  LET d == DigitRun(s, 1)
      w == SpaceRun(s, d + 1)
  IN  d >= 1 /\ SubSeq(s, d + w + 1, Len(s)) \in {"Hrs", "Hours", "hrs", "hours"}

RECURSIVE CollapseSpaces(_)
\* re.sub(r'\s+', ' ', unit)
CollapseSpaces(s) ==
  IF s = "" THEN ""
  ELSE IF IsSpace(Ch(s, 1))
       THEN " " \o CollapseSpaces(SubSeq(s, 1 + SpaceRun(s, 1), Len(s)))
       ELSE Ch(s, 1) \o CollapseSpaces(Tail(s))

\* "Clean up units": collapse the whitespace, strip
CleanUnit(unit) == Strip(CollapseSpaces(unit))

NonEmpty(unit) == unit # ""

\* cleaned_units: the non-empty cleaned units
CleanUnits(found) == SelectSeq([k \in 1..Len(found) |-> CleanUnit(found[k])], NonEmpty)

\* "If no units found, create default units"
DefaultUnits ==
  << "UNIT I: INTRODUCTION TO COMPILER DESIGN",
     "UNIT II: LEXICAL ANALYSIS AND SYNTAX ANALYSIS",
     "UNIT III: INTERMEDIATE CODE GENERATION",
     "UNIT IV: CODE OPTIMIZATION",
     "UNIT V: CODE GENERATION AND ERROR HANDLING" >>

\* The syllabus has at most MaxLines lines, drawn from SyllabusLines; the
\* five-line syllabus of the specification's scenario is an input as well.
MaxLines == 3

SyllabusLines ==
  { "UNIT I: BASICS", " Unit 2 - B\r", "Intro \ftoX", "Community hall",
    "9 Hrs", "9 HRS", "" }

RECURSIVE TextsOf(_)
\* The texts of exactly n lines
TextsOf(n) ==
  IF n = 0 THEN {""}
  ELSE IF n = 1 THEN SyllabusLines
  ELSE {t \o "\n" \o l : t \in TextsOf(n - 1), l \in SyllabusLines}

ScenarioSyllabus == "UNIT I: BASICS\nIntro to X\n9 Hrs\nUNIT II: ADVANCED\nMore on Y"

SyllabusTexts == UNION {TextsOf(n) : n \in 0..MaxLines} \cup {ScenarioSyllabus}

(***************************************************************************)
(* one_mark.py: extract_relevant_content                                   *)
(***************************************************************************)
IsLowerLetter(c) == c # "" /\ Find(LowerChars, c) # 0

\* \w of the regular expressions
IsWordChar(c) == IsLowerLetter(c) \/ c \in UpperSet \/ IsDigit(c) \/ c = "_"

RECURSIVE LetterRun(_, _)
\* The number of letters a..z of s from position i on
LetterRun(s, i) == IF IsLowerLetter(Ch(s, i)) THEN 1 + LetterRun(s, i + 1) ELSE 0

RECURSIVE FindWords(_, _)
\* re.findall(r'\b[a-z]{4,}\b', s) from position i on
FindWords(s, i) ==
  IF i > Len(s) THEN <<>>
  ELSE LET r == LetterRun(s, i)
       IN  IF r = 0 THEN FindWords(s, i + 1)
           ELSE IF r >= 4 /\ ~IsWordChar(Ch(s, i - 1)) /\ ~IsWordChar(Ch(s, i + r))
                THEN <<SubSeq(s, i, i + r - 1)>> \o FindWords(s, i + r)
                ELSE FindWords(s, i + r)

\* common_words
CommonWords ==
  {"the", "and", "for", "with", "this", "that", "from", "have", "has", "are", "was", "were"}

NotCommon(word) == word \notin CommonWords

RECURSIVE Replace(_, _, _)
\* s.replace(old, new), old non-empty
Replace(s, old, new) ==
  LET i == Find(s, old)
  IN  IF i = 0 THEN s
      ELSE SubSeq(s, 1, i - 1) \o new \o Replace(SubSeq(s, i + Len(old), Len(s)), old, new)

\* unit_name of extract_relevant_content: upper case
ExtractUnitName(unit) == Upper(Strip(Split(Strip(Split(unit, "\n")[1]), ":")[1]))

\* generic_keywords.get(unit_num, [unit_name.lower()])
GenericKeywords(unit_name) ==
  LET unit_num == Strip(Replace(unit_name, "UNIT", ""))
  IN  IF unit_num = "I" THEN <<"introduction", "basics", "fundamentals", "overview">>
      ELSE IF unit_num = "II" THEN <<"supervised", "regression", "classification">>
      ELSE IF unit_num = "III" THEN <<"unsupervised", "clustering", "dimensionality">>
      ELSE IF unit_num = "IV" THEN <<"neural", "network", "kernel", "svm">>
      ELSE IF unit_num = "V" THEN <<"probabilistic", "bayesian", "markov", "graphical">>
      ELSE <<Lower(unit_name)>>

\* keywords
Keywords(unit) ==
  LET unit_name == ExtractUnitName(unit)
      unit_description == Lower(Join(Split(unit, "\n"), " "))
      words == FindWords(unit_description, 1)
      keywords == Append(Take(SelectSeq(words, NotCommon), 10),
                         Replace(Lower(unit_name), "unit ", ""))
  IN  IF keywords = <<>> THEN GenericKeywords(unit_name) ELSE keywords

\* any(keyword.lower() in sentence_lower for keyword in keywords)
SentenceMatches(sentence, keywords) ==
  \E k \in 1..Len(keywords) : Contains(Lower(sentence), Lower(keywords[k]))

RECURSIVE TotalLength(_)
\* sum(len(s) for s in relevant_sentences)
TotalLength(sentences) ==
  IF sentences = <<>> THEN 0 ELSE Len(sentences[1]) + TotalLength(Tail(sentences))

\* The default of max_chars
DefaultMaxChars == 4000

\* "take first 3000 characters"
FallbackChars == 3000

\* The value returned after the walk
ExtractResult(full_text, relevant_sentences, max_chars) ==
  IF relevant_sentences = <<>> THEN Prefix(full_text, FallbackChars)
  ELSE Prefix(Join(relevant_sentences, ". "), max_chars)

\* The budgets tried besides the default
SmallBudget == 5

MediumBudget == 20

Budgets == {SmallBudget, MediumBudget, DefaultMaxChars}

\* Reference texts and unit descriptors of the extraction
ReferenceTexts ==
  { "Sorting is fun. Graphs are nice. Merge SORTING wins.  Unit tests",
    "Graphs are nice. Trees too",
    "Stable sorting algorithms keep the order of equal keys. Sorting. End",
    "" }

\* book_text, the text of the reference file: none extracted, or some
BookTexts == { "", "Graphs are nice. Trees too" }

ExtractUnits == { "UNIT 1: Sorting and the rest", "UNIT II: graphs\nwith trees", "Module A" }

VARIABLES
  con_pc,         \* per session: "idle" | "loaded" | "saving" | "opened"
  con_history,    \* per session: its history dict, as loaded and then as updated
  con_new_hashes, \* per session: new_hashes, the fingerprints it accepted
  con_file,       \* question_history.json: what it holds and its size in bytes
  con_seen,       \* per session: what the store held when it loaded: the length of
                  \* con_log and the list of the unit in the file
  con_log,        \* every fingerprint accepted and saved, in order, with its session
  con_last,       \* the latest save: its session, what con_seen recorded at its load,
                  \* and the fingerprints it accepted
  full_text,      \* the reference text: book_text, full_text of extract_relevant_content
  ext_unit,       \* extract_relevant_content: unit
  max_chars,      \* extract_relevant_content: max_chars
  sentence_no,    \* position of "for sentence in sentences" (1-based)
  relevant_sentences,
  excerpt,        \* the value extract_relevant_content returned
  syllabus_text,  \* app.py: the text of the syllabus file
  line_no,        \* position of "for line in lines" (1-based)
  current_unit,   \* app.py: current_unit
  mode,       \* what this behaviour exercises: "retry", "one", "six", "twelve"
  r_pc,       \* wrapper: "loop" | "returned" | "raised"
  r_i,        \* wrapper: loop index i
  r_delay,    \* wrapper: delay
  r_calls,    \* number of invocations of the wrapped call so far
  r_waits,    \* sleep times so far, in hundredths of a time unit
  r_last,     \* outcome of the latest invocation: "none", "ok" or an error text
  r_result,   \* what the wrapper returned ("ok") or raised (an error text)
  units,      \* the unit descriptors of the syllabus, in order
  questions_per_unit,
  pc,         \* "idle" | "loop" | "finish" | "done"
  idx,        \* position of the tier's loop over units (1-based)
  calls,      \* generation calls made so far in this behaviour
  file1,      \* question_history.json
  file6,      \* the six-mark history file
  file12,     \* the twelve-mark history file
  history,    \* the history dict of the running six/twelve-mark generator
  question_counter,
  all_one_mark_questions,  \* app.py: list of <<unit, questions>>
  all_questions,           \* the running six/twelve-mark generator's list
  tier_out,   \* app.py: six_mark_questions / twelve_mark_questions
  last        \* what the latest unit step did (for stating the properties)

retryVars == <<r_pc, r_i, r_delay, r_calls, r_waits, r_last, r_result>>

tierVars == <<units, questions_per_unit, pc, idx, calls, file1, file6, file12, history,
              question_counter, all_one_mark_questions, all_questions, tier_out, last>>

segVars == <<syllabus_text, line_no, current_unit>>

extVars == <<full_text, ext_unit, max_chars, sentence_no, relevant_sentences, excerpt>>

conVars == <<con_pc, con_history, con_new_hashes, con_file, con_seen, con_log, con_last>>

toolVars == <<segVars, extVars, conVars>>

vars == <<mode, toolVars, retryVars, tierVars>>

RetryInit ==
  /\ r_pc = "loop"
  /\ r_i = 0
  /\ r_delay = InitialDelay
  /\ r_calls = 0
  /\ r_waits = <<>>
  /\ r_last = "none"
  /\ r_result = "none"

RetryGiveUpNever(i, text) == ~IsRateLimit(text)

RetryGiveUpOnRateLimit(i, text) == i = MaxRetries \/ IsRateLimit(text)

\* "if i == max_retries or not is_rate_limit: raise e"
RetryGiveUp(i, text) == i = MaxRetries \/ ~IsRateLimit(text)

\* One invocation of the wrapped call inside wrapper(): an iteration of the
\* for loop, or the call after the loop once range(max_retries + 1) is used up.
RetryAttempt ==
  /\ mode = "retry"
  /\ r_pc = "loop"
  /\ \E outcome \in {"ok"} \cup ErrTexts, draw \in JitterDraws :
       /\ r_calls' = r_calls + 1
       /\ r_last' = outcome
       /\ IF outcome = "ok"
          THEN /\ r_pc' = "returned"
               /\ r_result' = "ok"
               /\ UNCHANGED <<r_i, r_delay, r_waits>>
          ELSE IF r_i > MaxRetries \/ RetryGiveUp(r_i, outcome)
          THEN /\ r_pc' = "raised"
               /\ r_result' = outcome
               /\ UNCHANGED <<r_i, r_delay, r_waits>>
          ELSE /\ r_waits' = Append(r_waits, SleepTime(r_delay, draw))
               /\ r_delay' = r_delay * ExponentialBase
               /\ r_i' = r_i + 1
               /\ UNCHANGED <<r_pc, r_result>>
  /\ UNCHANGED <<mode, toolVars, tierVars>>

\* Before the first unit step of a run
NoStep == [ kind |-> "none", unit |-> "", start |-> 0, questions |-> <<>>,
            before |-> <<>>, added |-> <<>>, accepted |-> <<>> ]

Min2(a, b) == IF a < b THEN a ELSE b

\* The first question number of the tier
FirstNumber == IF mode = "six" THEN SixMarkFirst
               ELSE IF mode = "twelve" THEN TwelveMarkFirst ELSE 1

\* The history file of the tier
TierFile == IF mode = "six" THEN file6 ELSE IF mode = "twelve" THEN file12 ELSE file1

\* The units the tier's loop visits: the six-mark distribution names positions
\* 0..4 and skips those not below len(units).
LoopLength == IF mode = "six" THEN Min2(Len(SixMarkDistribution), Len(units))
              ELSE Len(units)

TierInit ==
  /\ units \in (IF mode = "segment" THEN {<<>>}
               ELSE IF mode = "concurrent" THEN {<<u>> : u \in SessionUnits}
               ELSE {UnitsOf(n) : n \in 1..(IF mode = "one" THEN MaxUnitsOneMark
                                            ELSE IF mode \in {"six", "twelve"} THEN MaxUnits
                                            ELSE 1)})
  /\ questions_per_unit \in (IF mode = "one" THEN 1..MaxQPU ELSE {1})
  /\ pc = "idle"
  /\ idx = 1
  /\ calls = 0
  /\ file1 = EmptyHistory
  /\ file6 = EmptyHistory
  /\ file12 = EmptyHistory
  /\ history = EmptyHistory
  /\ question_counter = 1
  /\ all_one_mark_questions = <<>>
  /\ all_questions = <<>>
  /\ tier_out = ""
  /\ last = NoStep

\* app.py: the button is pressed: a run of the tier begins.  A six-mark or
\* twelve-mark generator starts by loading its history file.
BeginRun ==
  /\ mode \in {"one", "six", "twelve"}
  /\ pc \in {"idle", "done"}
  /\ calls + LoopLength <= (IF mode = "one" THEN MaxCallsOneMark ELSE MaxCalls)
  /\ pc' = "loop"
  /\ idx' = 1
  /\ question_counter' = FirstNumber
  /\ all_one_mark_questions' = <<>>
  /\ all_questions' = <<>>
  /\ tier_out' = ""
  /\ history' = TierFile
  /\ last' = NoStep
  /\ UNCHANGED <<mode, toolVars, retryVars, units, questions_per_unit, calls, file1, file6, file12>>

RECURSIVE OneMarkFallbackSameNumber(_, _, _)
\* A fallback block whose placeholders all carry the counter's first value
OneMarkFallbackSameNumber(text, counter, n) ==
  IF n = 0 THEN text
  ELSE OneMarkFallbackSameNumber(
         text \o "Q" \o ToString(counter)
              \o ". [Question generation failed - please try again]\nA. Option A\nB. Option B\nC. Option C\nD. Option D\n\n",
         counter, n - 1)

RECURSIVE OneMarkFallback(_, _, _)
\* app.py: the fallback block of a unit whose generation raised
OneMarkFallback(text, counter, n) ==
  IF n = 0 THEN text
  ELSE OneMarkFallback(
         text \o "Q" \o ToString(counter)
              \o ". [Question generation failed - please try again]\nA. Option A\nB. Option B\nC. Option C\nD. Option D\n\n",
         counter + 1, n - 1)

\* app.py: "if "No new questions" not in questions"
OneMarkKeeps(questions) == ~Contains(questions, "No new questions")

\* app.py: one iteration of "for i, unit in enumerate(units)" of the one-mark
\* loop, the call of generate_one_mark_questions included.
OneMarkUnit ==
  /\ mode = "one"
  /\ pc = "loop"
  /\ idx <= Len(units)
  /\ \E outcome \in Outcomes(OneMarkResponses) :
       LET unit == units[idx]
           g == GenerateOneMark(file1, unit, questions_per_unit, question_counter,
                                outcome.text)
       IN  IF outcome.ok
           THEN /\ file1' = g.file
                /\ IF OneMarkKeeps(g.ret)
                   THEN /\ all_one_mark_questions' =
                             Append(all_one_mark_questions, <<unit, g.ret>>)
                        /\ question_counter' = question_counter + questions_per_unit
                   ELSE UNCHANGED <<all_one_mark_questions, question_counter>>
                /\ last' = [ kind |-> IF g.final = <<>> THEN "nonew" ELSE "generated",
                             unit |-> unit,
                             start |-> question_counter,
                             questions |-> g.raw_questions,
                             before |-> g.before,
                             added |-> g.added,
                             accepted |-> g.final ]
           ELSE /\ all_one_mark_questions' =
                     Append(all_one_mark_questions,
                            <<unit, OneMarkFallback("**" \o unit \o "**\n\n",
                                                    question_counter, questions_per_unit)>>)
                /\ question_counter' = question_counter + questions_per_unit
                /\ file1' = OneMarkRaised(file1, unit)
                /\ last' = [ kind |-> "failed", unit |-> unit,
                             start |-> question_counter,
                             questions |-> <<>>,
                             before |-> HistGet(file1, UnitName(unit)),
                             added |-> <<>>, accepted |-> <<>> ]
  /\ idx' = idx + 1
  /\ calls' = calls + 1
  /\ pc' = IF idx = Len(units) THEN "done" ELSE "loop"
  /\ UNCHANGED <<mode, toolVars, retryVars, units, questions_per_unit, file6, file12, history,
                 all_questions, tier_out>>

\* generate_six_mark_questions: one iteration of "for unit_idx, num_questions in
\* distribution" that reaches a unit.  A failure of the call or of the parsing is
\* re-raised by the generator, and app.py replaces the six-mark questions.
SixMarkUnit ==
  /\ mode = "six"
  /\ pc = "loop"
  /\ idx <= LoopLength
  /\ \E outcome \in Outcomes(SixMarkResponses) :
       LET unit_name == UnitName(units[idx])
           before == HistGet(history, unit_name)
           r == SixMarkAccept(ParseQuestions(outcome.text), 1, idx, all_questions,
                              before, question_counter)
       IN  IF outcome.ok
           THEN /\ all_questions' = r.all
                /\ question_counter' = r.counter
                /\ history' = HistPut(history, unit_name, r.hist)
                /\ file6' = HistPut(history, unit_name, r.hist)
                /\ tier_out' = tier_out
                /\ pc' = IF idx = LoopLength THEN "finish" ELSE "loop"
                /\ last' = [ kind |-> "generated", unit |-> units[idx],
                             start |-> question_counter,
                             questions |-> ParseQuestions(outcome.text),
                             before |-> before,
                             added |-> SubSeq(r.hist, Len(before) + 1, Len(r.hist)),
                             accepted |-> SubSeq(r.all, Len(all_questions) + 1, Len(r.all)) ]
           ELSE /\ tier_out' = SixMarkFallback
                /\ pc' = "done"
                /\ last' = [ kind |-> "failed", unit |-> units[idx],
                             start |-> question_counter,
                             questions |-> <<>>,
                             before |-> before, added |-> <<>>, accepted |-> <<>> ]
                /\ UNCHANGED <<all_questions, question_counter, history, file6>>
  /\ idx' = idx + 1
  /\ calls' = calls + 1
  /\ UNCHANGED <<mode, toolVars, retryVars, units, questions_per_unit, file1, file12,
                 all_one_mark_questions>>

\* generate_twelve_mark_questions: one iteration of "for unit_idx, unit in
\* enumerate(units)".
TwelveMarkUnit ==
  /\ mode = "twelve"
  /\ pc = "loop"
  /\ idx <= LoopLength
  /\ \E outcome \in Outcomes(TwelveMarkResponses) :
       LET unit_name == UnitName(units[idx])
           before == HistGet(history, unit_name)
           r == TwelveMarkAccept(ParseQuestions(outcome.text), 1, 0, all_questions,
                                 before, question_counter)
       IN  IF outcome.ok
           THEN /\ all_questions' = r.all
                /\ question_counter' = r.counter
                /\ history' = HistPut(history, unit_name, r.hist)
                /\ file12' = HistPut(history, unit_name, r.hist)
                /\ tier_out' = tier_out
                /\ pc' = IF idx = LoopLength THEN "finish" ELSE "loop"
                /\ last' = [ kind |-> "generated", unit |-> units[idx],
                             start |-> question_counter,
                             questions |-> ParseQuestions(outcome.text),
                             before |-> before,
                             added |-> SubSeq(r.hist, Len(before) + 1, Len(r.hist)),
                             accepted |-> SubSeq(r.all, Len(all_questions) + 1, Len(r.all)) ]
           ELSE /\ tier_out' = TwelveMarkFallback
                /\ pc' = "done"
                /\ last' = [ kind |-> "failed", unit |-> units[idx],
                             start |-> question_counter,
                             questions |-> <<>>,
                             before |-> before, added |-> <<>>, accepted |-> <<>> ]
                /\ UNCHANGED <<all_questions, question_counter, history, file12>>
  /\ idx' = idx + 1
  /\ calls' = calls + 1
  /\ UNCHANGED <<mode, toolVars, retryVars, units, questions_per_unit, file1, file6,
                 all_one_mark_questions>>

\* The generator pads or truncates and returns; app.py keeps the text returned.
TierReturn ==
  /\ mode \in {"six", "twelve"}
  /\ pc = "finish"
  /\ all_questions' = IF mode = "six" THEN SixMarkPadded(all_questions, question_counter)
                      ELSE TwelveMarkPadded(all_questions, question_counter)
  /\ tier_out' = IF mode = "six" THEN SixMarkResult(all_questions, question_counter)
                 ELSE TwelveMarkResult(all_questions, question_counter)
  /\ pc' = "done"
  /\ UNCHANGED <<mode, toolVars, retryVars, units, questions_per_unit, idx, calls, file1, file6,
                 file12, history, question_counter, all_one_mark_questions, last>>

SegInit ==
  /\ syllabus_text \in (IF mode = "segment" THEN SyllabusTexts ELSE {""})
  /\ line_no = 1
  /\ current_unit = ""

\* app.py: "if not syllabus_text or not book_text: ... st.stop()": an empty
\* syllabus text ends the script before the split into units
Extracted == syllabus_text # "" /\ full_text # ""

\* app.py: one iteration of "for line in lines" of the split into units
SegmentLine ==
  /\ mode = "segment"
  /\ pc = "idle"
  /\ Extracted
  /\ line_no <= Len(SplitLines(syllabus_text))
  /\ LET line == SplitLines(syllabus_text)[line_no]
     IN  IF IsUnitLine(line)
         THEN /\ units' = IF current_unit # "" THEN Append(units, Strip(current_unit))
                          ELSE units
              /\ current_unit' = Strip(line)
         ELSE /\ units' = units
              /\ current_unit' =
                   IF current_unit # "" /\ Strip(line) # "" /\ ~IsHourLine(Strip(line))
                   THEN current_unit \o " " \o Strip(line)
                   ELSE current_unit
  /\ line_no' = line_no + 1
  /\ UNCHANGED <<mode, syllabus_text, extVars, conVars, retryVars, questions_per_unit, pc, idx, calls,
                 file1, file6, file12, history, question_counter,
                 all_one_mark_questions, all_questions, tier_out, last>>

\* app.py: after the loop: the last unit is flushed, the units are cleaned and
\* the default units stand in when there is none
SegmentFinish ==
  /\ mode = "segment"
  /\ pc = "idle"
  /\ Extracted
  /\ line_no > Len(SplitLines(syllabus_text))
  /\ LET found == IF current_unit # "" THEN Append(units, Strip(current_unit)) ELSE units
         cleaned_units == CleanUnits(found)
     IN  units' = IF cleaned_units = <<>> THEN DefaultUnits ELSE cleaned_units
  /\ pc' = "segmented"
  /\ UNCHANGED <<mode, segVars, extVars, conVars, retryVars, questions_per_unit, idx, calls,
                 file1, file6, file12, history, question_counter,
                 all_one_mark_questions, all_questions, tier_out, last>>

ExtInit ==
  /\ full_text \in (IF mode = "extract" THEN ReferenceTexts
                    ELSE IF mode = "segment" THEN BookTexts ELSE {""})
  /\ ext_unit \in (IF mode = "extract" THEN ExtractUnits ELSE {""})
  /\ max_chars \in (IF mode = "extract" THEN Budgets ELSE {DefaultMaxChars})
  /\ sentence_no = 1
  /\ relevant_sentences = <<>>
  /\ excerpt = ""

\* extract_relevant_content: one iteration of "for sentence in sentences";
\* the walk ends after the last sentence or at the break
ExtractSentence ==
  /\ mode = "extract"
  /\ pc = "idle"
  /\ LET sentences == Split(full_text, ".")
         sentence == sentences[sentence_no]
         kept == IF SentenceMatches(sentence, Keywords(ext_unit))
                 THEN Append(relevant_sentences, Strip(sentence))
                 ELSE relevant_sentences
     IN  /\ relevant_sentences' = kept
         /\ sentence_no' = sentence_no + 1
         /\ pc' = IF TotalLength(kept) > max_chars \/ sentence_no = Len(sentences)
                  THEN "walked" ELSE "idle"
  /\ UNCHANGED <<mode, segVars, conVars, full_text, ext_unit, max_chars, excerpt, retryVars,
                 units, questions_per_unit, idx, calls,
                 file1, file6, file12, history, question_counter,
                 all_one_mark_questions, all_questions, tier_out, last>>

\* extract_relevant_content: the return after the walk
ExtractReturn ==
  /\ mode = "extract"
  /\ pc = "walked"
  /\ excerpt' = ExtractResult(full_text, relevant_sentences, max_chars)
  /\ pc' = "extracted"
  /\ UNCHANGED <<mode, segVars, conVars, full_text, ext_unit, max_chars, sentence_no,
                 relevant_sentences, retryVars,
                 units, questions_per_unit, idx, calls,
                 file1, file6, file12, history, question_counter,
                 all_one_mark_questions, all_questions, tier_out, last>>

(***************************************************************************)
(* Two sessions running generate_one_mark_questions for the same unit on   *)
(* the same question_history.json.  Nothing locks the file: a call is the  *)
(* steps load / response / open for writing / dump, and the steps of the   *)
(* two sessions interleave freely.                                         *)
(*                                                                         *)
(* file1 is the JSON document the file begins with (the empty dict when    *)
(* there is none), con_file says whether the file is that document alone:  *)
(*   "absent"  no file yet: load_history returns {}                        *)
(*   "json"    the file is the document                                    *)
(*   "empty"   opened for writing and truncated, nothing written yet       *)
(*   "torn"    a document followed by the rest of a longer one, written    *)
(*             after both writers had opened the file                      *)
(* json.load raises on an empty and on a torn file.                        *)
(***************************************************************************)
Sessions == {1, 2}

\* At most MaxSessionCalls calls of generate_one_mark_questions are made
MaxSessionCalls == 3

\* hash_question: the length of the hexadecimal SHA-256 digest in the file
DigestChars == 64

\* json.dump writes these characters of a string as themselves: the
\* printable ASCII characters but the quotation mark and the backslash (the
\* grave accent, which no string of the model can hold, is not listed)
JsonPlainChars == " !#$%&'()*+,-./0123456789:;<=>?@ABCDEFGHIJKLMNOPQRSTUVWXYZ[]^_abcdefghijklmnopqrstuvwxyz{|}~"

JsonPlain == {Ch(JsonPlainChars, i) : i \in 1..Len(JsonPlainChars)}

\* ... these as a backslash and one character: quotation mark, backslash,
\* line feed, carriage return, tab, form feed, backspace (code 8, written as
\* it is) ...
JsonShort == {"\"", "\\", "\n", "\r", "\t", "\f", ""}

\* ... and every other character as \uXXXX
JsonCharLength(c) == IF c \in JsonPlain THEN 1 ELSE IF c \in JsonShort THEN 2 ELSE 6

RECURSIVE JsonCharsLength(_, _)
JsonCharsLength(s, i) ==
  IF i > Len(s) THEN 0 ELSE JsonCharLength(Ch(s, i)) + JsonCharsLength(s, i + 1)

\* The number of bytes json.dump writes for the string s, quotation marks included
JsonStringLength(s) == 2 + JsonCharsLength(s, 1)

\* json.dump of one entry: "key": ["digest", "digest"]
DumpItemLength(k, list) ==
  JsonStringLength(k) + 2 + 2
  + (IF list = <<>> THEN 0 ELSE Len(list) * (DigestChars + 2) + 2 * (Len(list) - 1))

RECURSIVE DumpItemsLength(_, _)
DumpItemsLength(h, keys) ==
  IF keys = {} THEN 0
  ELSE LET k == CHOOSE x \in keys : TRUE
       IN  DumpItemLength(k, h[k]) + (IF keys = {k} THEN 0 ELSE 2)
           + DumpItemsLength(h, keys \ {k})

\* The number of bytes json.dump(history, f) writes
DumpLength(h) == 2 + DumpItemsLength(h, DOMAIN h)

SaveHistoryMerged(stored, saved) ==
  [k \in DOMAIN stored \cup DOMAIN saved |->
     IF k \in DOMAIN stored
     THEN stored[k] \o SelectSeq(HistGet(saved, k), LAMBDA f : f \notin Range(stored[k]))
     ELSE saved[k]]

\* save_history: json.dump(history, f) writes the dict of the session from
\* the start of the file, whatever the file holds
SaveHistory(stored, saved) == saved

NoSave == [by |-> 0, seen |-> 0, loaded |-> <<>>, added |-> <<>>]

NothingSeen == [log |-> 0, list |-> <<>>]

\* The calls begun and not yet ended
InFlight == Cardinality({q \in Sessions : con_pc[q] # "idle"})

ConInit ==
  /\ con_pc = [p \in Sessions |-> "idle"]
  /\ con_history = [p \in Sessions |-> EmptyHistory]
  /\ con_new_hashes = [p \in Sessions |-> <<>>]
  /\ con_file = [kind |-> "absent", size |-> 0]
  /\ con_seen = [p \in Sessions |-> NothingSeen]
  /\ con_log = <<>>
  /\ con_last = NoSave

\* generate_one_mark_questions of session p: "history = load_history()".
\* json.load raises on a file that is not one JSON document: the call ends
\* there, before any request.
ConLoad(p) ==
  /\ mode = "concurrent"
  /\ con_pc[p] = "idle"
  /\ calls + InFlight < MaxSessionCalls
  /\ IF con_file.kind \in {"empty", "torn"}
     THEN /\ calls' = calls + 1
          /\ UNCHANGED <<con_pc, con_history, con_new_hashes, con_seen>>
     ELSE /\ con_pc' = [con_pc EXCEPT ![p] = "loaded"]
          /\ con_history' = [con_history EXCEPT ![p] = file1]
          /\ con_new_hashes' = [con_new_hashes EXCEPT ![p] = <<>>]
          /\ con_seen' = [con_seen EXCEPT ![p] =
                            [log |-> Len(con_log),
                             list |-> HistGet(file1, UnitName(units[1]))]]
          /\ calls' = calls
  /\ UNCHANGED <<mode, segVars, extVars, con_file, con_log, con_last, retryVars,
                 units, questions_per_unit, pc, idx, file1, file6, file12, history,
                 question_counter, all_one_mark_questions, all_questions, tier_out, last>>

\* generate_one_mark_questions of session p from the request to "if
\* final_questions": the request fails and the call raises, or the questions
\* are accepted against the history loaded; with none accepted the call returns
ConRespond(p) ==
  /\ mode = "concurrent"
  /\ con_pc[p] = "loaded"
  /\ \E outcome \in Outcomes(OneMarkResponses) :
       LET g == GenerateOneMark(con_history[p], units[1], questions_per_unit, 1,
                                outcome.text)
       IN  IF outcome.ok /\ g.final # <<>>
           THEN /\ con_pc' = [con_pc EXCEPT ![p] = "saving"]
                /\ con_history' = [con_history EXCEPT ![p] = g.file]
                /\ con_new_hashes' = [con_new_hashes EXCEPT ![p] = g.added]
                /\ calls' = calls
           ELSE /\ con_pc' = [con_pc EXCEPT ![p] = "idle"]
                /\ calls' = calls + 1
                /\ UNCHANGED <<con_history, con_new_hashes>>
  /\ UNCHANGED <<mode, segVars, extVars, con_file, con_seen, con_log, con_last, retryVars,
                 units, questions_per_unit, pc, idx, file1, file6, file12, history,
                 question_counter, all_one_mark_questions, all_questions, tier_out, last>>

\* save_history of session p: open(HISTORY_FILE, "w") truncates the file
ConOpen(p) ==
  /\ mode = "concurrent"
  /\ con_pc[p] = "saving"
  /\ con_pc' = [con_pc EXCEPT ![p] = "opened"]
  /\ con_file' = [kind |-> "empty", size |-> 0]
  /\ file1' = EmptyHistory
  /\ UNCHANGED <<mode, segVars, extVars, con_history, con_new_hashes, con_seen, con_log,
                 con_last, retryVars, units, questions_per_unit, pc, idx, calls, file6,
                 file12, history, question_counter, all_one_mark_questions, all_questions,
                 tier_out, last>>

\* save_history of session p: json.dump and the close that writes the bytes,
\* at the start of the file; what another writer wrote beyond them since the
\* open stays.  The call then returns its questions.
ConDump(p) ==
  /\ mode = "concurrent"
  /\ con_pc[p] = "opened"
  /\ LET written == DumpLength(con_history[p])
     IN  /\ file1' = SaveHistory(file1, con_history[p])
         /\ con_file' = IF con_file.size > written
                        THEN [kind |-> "torn", size |-> con_file.size]
                        ELSE [kind |-> "json", size |-> written]
         /\ con_log' = con_log \o [i \in 1..Len(con_new_hashes[p]) |->
                                     [by |-> p, hash |-> con_new_hashes[p][i],
                                      seen |-> con_seen[p].log]]
         /\ con_last' = [by |-> p, seen |-> con_seen[p].log,
                         loaded |-> con_seen[p].list, added |-> con_new_hashes[p]]
  /\ con_pc' = [con_pc EXCEPT ![p] = "idle"]
  /\ calls' = calls + 1
  /\ UNCHANGED <<mode, segVars, extVars, con_history, con_new_hashes, con_seen, retryVars,
                 units, questions_per_unit, pc, idx, file6, file12, history,
                 question_counter, all_one_mark_questions, all_questions, tier_out, last>>

Init ==
  /\ mode \in {"retry", "one", "six", "twelve", "segment", "extract", "concurrent"}
  /\ RetryInit
  /\ ConInit
  /\ SegInit
  /\ ExtInit
  /\ TierInit

Next ==
  \/ RetryAttempt
  \/ BeginRun
  \/ OneMarkUnit
  \/ SixMarkUnit
  \/ TwelveMarkUnit
  \/ TierReturn
  \/ SegmentLine
  \/ SegmentFinish
  \/ ExtractSentence
  \/ ExtractReturn
  \/ \E p \in Sessions : ConLoad(p)
  \/ \E p \in Sessions : ConRespond(p)
  \/ \E p \in Sessions : ConOpen(p)
  \/ \E p \in Sessions : ConDump(p)

Spec == Init /\ [][Next]_vars

(***************************************************************************)
(* Reading a tier's text back: its question records and their numbers      *)
(***************************************************************************)
NonBlank(chunk) == Strip(chunk) # ""

\* The records of a tier text: its blocks separated by blank lines
Records(text) == SelectSeq(Split(text, "\n\n"), NonBlank)

DigitValue(c) == Find("0123456789", c) - 1

RECURSIVE NatOf(_)
NatOf(digits) ==
  IF digits = "" THEN 0
  ELSE 10 * NatOf(SubSeq(digits, 1, Len(digits) - 1)) + DigitValue(Ch(digits, Len(digits)))

\* The number of a record "Q<n>. ...", -1 when the record has no such marker
MarkerNumber(record) ==
  LET d == DigitRun(record, 2)
  IN  IF StartsWith(record, "Q") /\ d >= 1 /\ Ch(record, 2 + d) = "."
      THEN NatOf(SubSeq(record, 2, 1 + d)) ELSE -1

RecordNumbers(text) ==
  LET records == Records(text)
  IN  [i \in 1..Len(records) |-> MarkerNumber(records[i])]

NoRepeat(list) == \A i, j \in 1..Len(list) : i # j => list[i] # list[j]

\* The questions the running six-mark or twelve-mark generator has accepted:
\* question_counter counts them, the padding of the return leaves it alone
AcceptedQuestions == SubSeq(all_questions, 1, question_counter - FirstNumber)

\* The persisted history list of the unit of the latest step
StoredNow == HistGet(TierFile, UnitName(last.unit))

(***************************************************************************)
(* C1: in every tier, a candidate whose fingerprint is already in the      *)
(* unit's history when it is examined is never accepted: the fingerprints  *)
(* a unit step appends are new to the history the step found and pairwise  *)
(* distinct, one per question accepted, and the stored list is the list    *)
(* found followed by exactly these - so no stored list ever repeats a      *)
(* fingerprint, over any sequence of runs on the same store.               *)
(***************************************************************************)
C1_KnownFingerprintNeverAccepted ==
  /\ last.kind # "none" =>
       /\ NoRepeat(last.before \o last.added)
       /\ Len(last.accepted) = Len(last.added)
       /\ StoredNow = last.before \o last.added
  /\ \A f \in {file1, file6, file12} : \A k \in DOMAIN f : NoRepeat(f[k])

\* A six-mark step of a later run examined candidates and rejected them all,
\* each being in the unit's history
C1_Witness ==
  /\ mode = "six"
  /\ last.kind = "generated"
  /\ last.questions # <<>>
  /\ last.before # <<>>
  /\ last.added = <<>>

(***************************************************************************)
(* C2: every six-mark run ends with exactly 8 question records, numbered   *)
(* 11, 12, ..., 18 in output order, whatever the units and the responses,  *)
(* and also when a failure made app.py substitute its fallback.            *)
(***************************************************************************)
C2_SixMarkExactlyEight ==
  (mode = "six" /\ pc = "done") =>
    RecordNumbers(tier_out) = [i \in 1..8 |-> 10 + i]

\* A run with more than 8 accepted questions returned (over-delivery)
C2_Witness ==
  /\ mode = "six"
  /\ pc = "done"
  /\ last.kind = "generated"
  /\ Len(AcceptedQuestions) > 8

(***************************************************************************)
(* C3: every twelve-mark run ends with exactly 10 question records,        *)
(* numbered 19, 20, ..., 28 in output order, for fewer or more than 5      *)
(* units, any responses, and the fallback after a failure.                 *)
(***************************************************************************)
C3_TwelveMarkExactlyTen ==
  (mode = "twelve" /\ pc = "done") =>
    RecordNumbers(tier_out) = [i \in 1..10 |-> 18 + i]

\* A run over fewer than 5 units returned with accepted questions and padding
C3_Witness ==
  /\ mode = "twelve"
  /\ pc = "done"
  /\ last.kind = "generated"
  /\ Len(units) < 5
  /\ AcceptedQuestions # <<>>
  /\ Len(AcceptedQuestions) < 10
  /\ Len(all_questions) = 10

(***************************************************************************)
(* C4: when generation fails for one unit of the six-mark or twelve-mark   *)
(* tier, the tier is not aborted: the questions accepted from earlier      *)
(* units are still in the tier's output and the later units are still      *)
(* processed, only the failing unit's quota being placeholders.            *)
(***************************************************************************)
C4_FailureDoesNotAbortTier ==
  (mode \in {"six", "twelve"} /\ pc = "done" /\ last.kind = "failed") =>
    /\ idx > LoopLength
    /\ \A i \in 1..Len(AcceptedQuestions) :
         i <= (IF mode = "six" THEN SixMarkTotal ELSE TwelveMarkTotal) =>
           AcceptedQuestions[i] \in Range(Records(tier_out))

(***************************************************************************)
(* C5: a one-mark unit of which every candidate was a duplicate gets       *)
(* placeholder questions: the unit still contributes questions_per_unit    *)
(* question records to the one-mark output.                                *)
(***************************************************************************)
IsQuestionRecord(record) == MarkerNumber(record) >= 0

C5_NoNewUnitGetsPlaceholders ==
  (/\ mode = "one"
   /\ last.kind = "nonew"
   /\ \E j \in 1..Len(last.questions) : IsOneMarkCandidate(last.questions[j])) =>
    \E e \in 1..Len(all_one_mark_questions) :
      /\ all_one_mark_questions[e][1] = last.unit
      /\ Len(SelectSeq(Records(all_one_mark_questions[e][2]), IsQuestionRecord))
           = questions_per_unit

(***************************************************************************)
(* C6: the six-mark tier never accepts more questions from the unit at     *)
(* position p than the quota of p (2, 2, 2, 1, 1), the excess of a longer  *)
(* response being dropped, and no unit at position 5 or above is served.   *)
(***************************************************************************)
C6_SixMarkQuotaNeverExceeded ==
  (mode = "six" /\ last.kind = "generated") =>
    /\ idx - 1 <= Len(SixMarkDistribution)
    /\ Len(last.accepted) <= SixMarkDistribution[idx - 1]

(***************************************************************************)
(* C7: a one-mark response's accepted questions are exactly its first      *)
(* questions_per_unit candidate chunks, in response order, whose           *)
(* fingerprint is not in the unit's history (the list as it stands when    *)
(* the chunk is examined: what the call found plus what it has accepted);  *)
(* later candidates are dropped; the history gains the fingerprints of the *)
(* accepted chunks, one each in order, and nothing else.                   *)
(***************************************************************************)
C7_Fresh(j) ==
  /\ IsOneMarkCandidate(last.questions[j])
  /\ Hash(last.questions[j]) \notin Range(last.before)
  /\ \A k \in 1..(j - 1) :
       IsOneMarkCandidate(last.questions[k]) =>
         Hash(last.questions[k]) # Hash(last.questions[j])

C7_FreshIndexes == {j \in 1..Len(last.questions) : C7_Fresh(j)}

C7_Rank(j) == Cardinality({k \in C7_FreshIndexes : k <= j})

C7_TakenIndexes == {j \in C7_FreshIndexes : C7_Rank(j) <= questions_per_unit}

C7_OneMarkFirstFreshAccepted ==
  (mode = "one" /\ last.kind \in {"generated", "nonew"}) =>
    /\ Len(last.accepted) = Cardinality(C7_TakenIndexes)
    /\ Len(last.added) = Cardinality(C7_TakenIndexes)
    /\ \A j \in C7_TakenIndexes :
         /\ last.accepted[C7_Rank(j)] = last.questions[j]
         /\ last.added[C7_Rank(j)] = Hash(last.questions[j])
    /\ StoredNow = last.before \o last.added

\* Three candidate chunks with quota 2, the second one in the history:
\* the first and the third are accepted and the history grows by 2
C7_Witness ==
  /\ mode = "one"
  /\ questions_per_unit = 2
  /\ last.kind = "generated"
  /\ Len(last.questions) >= 3
  /\ \E a, b, c \in 1..Len(last.questions) :
       /\ a < b /\ b < c
       /\ {j \in 1..c : IsOneMarkCandidate(last.questions[j])} = {a, b, c}
       /\ Hash(last.questions[b]) \in Range(last.before)
       /\ last.accepted = <<last.questions[a], last.questions[c]>>
  /\ Len(StoredNow) = Len(last.before) + 2

(***************************************************************************)
(* The retry wrapper runs on its own thread of control: once entered, its  *)
(* loop keeps taking steps until it returns or raises.                     *)
(***************************************************************************)
FairSpec == Spec /\ WF_vars(RetryAttempt)

(***************************************************************************)
(* C8: the retry wrapper invokes the wrapped call at most 6 times (one     *)
(* attempt and up to 5 retries) and always terminates: it returns the      *)
(* first success with no further attempt, every earlier attempt having     *)
(* failed and been waited for, or after 6 rate-limit failures it raises    *)
(* the failure of the 6th attempt.                                         *)
(***************************************************************************)
C8_Bounded ==
  mode = "retry" =>
    /\ r_calls <= MaxRetries + 1
    /\ r_pc = "loop" => (r_calls = r_i /\ r_i <= MaxRetries /\ Len(r_waits) = r_calls)
    /\ r_pc = "returned" =>
         (r_last = "ok" /\ r_result = "ok" /\ Len(r_waits) = r_calls - 1)
    /\ (r_pc = "raised" /\ r_calls = MaxRetries + 1) =>
         (r_result = r_last /\ r_result \in ErrTexts /\ Len(r_waits) = MaxRetries)

C8_RetryBoundedAndTerminates ==
  /\ []C8_Bounded
  /\ [][r_pc # "loop" => UNCHANGED retryVars]_vars
  /\ (mode = "retry") ~> (r_pc \in {"returned", "raised"})

\* Six attempts all failed with a rate-limit failure, and the sixth was raised
C8_Witness ==
  /\ mode = "retry"
  /\ r_pc = "raised"
  /\ r_calls = MaxRetries + 1
  /\ IsRateLimit(r_result)

(***************************************************************************)
(* C9: a failure that is not recognised as rate limiting is raised at      *)
(* once, on whichever attempt it occurs: the call is not invoked again     *)
(* and no wait follows it.                                                 *)
(***************************************************************************)
C9_OtherFailureRaisedAtOnce ==
  (mode = "retry" /\ r_last \in ErrTexts /\ ~IsRateLimit(r_last)) =>
    /\ r_pc = "raised"
    /\ r_result = r_last
    /\ Len(r_waits) = r_calls - 1

\* An unrecognised failure on a retry, after rate-limit failures
C9_Witness ==
  /\ mode = "retry"
  /\ r_pc = "raised"
  /\ r_calls > 1
  /\ r_calls <= MaxRetries
  /\ ~IsRateLimit(r_result)

(***************************************************************************)
(* C10: the one-mark question counter starts at 1; a unit with at least    *)
(* one accepted question advances it by exactly questions_per_unit, a unit *)
(* with no accepted question leaves it unchanged.                          *)
(***************************************************************************)
C10_OneMarkCounterAdvance ==
  mode = "one" =>
    /\ (pc = "loop" /\ last.kind = "none") => question_counter = 1
    /\ last.kind = "generated" => question_counter = last.start + questions_per_unit
    /\ last.kind = "nonew" => question_counter = last.start

(***************************************************************************)
(* C11: renumbering a question whose marker is not of the malformed        *)
(* six-mark form changes only the number of the leading marker: the        *)
(* record becomes Q<n>. followed by exactly what followed the first '.'    *)
(* of its marker line (a bare Q<n>. when there is no '.'), every later     *)
(* line of a multi-line one-mark record being unchanged.                   *)
(***************************************************************************)
C11_MarkerLine(line, n) ==
  LET parts == Split1(line, ".")
  IN  "Q" \o ToString(n) \o "." \o (IF Len(parts) > 1 THEN parts[2] ELSE "")

C11_Record(q, n) ==
  LET lines == Split(q, "\n")
  IN  Join(<<C11_MarkerLine(lines[1], n)>> \o Tail(lines), "\n")

C11_RenumberingKeepsBody ==
  /\ (mode = "one" /\ last.kind = "generated") =>
       \A j \in 1..Len(last.accepted) :
         RenumberOneMark(last.accepted[j], last.start + j - 1)
           = C11_Record(last.accepted[j], last.start + j - 1)
  /\ (mode = "six" /\ last.kind = "generated") =>
       \A j \in 1..Len(last.questions) :
         (StartsWith(last.questions[j], "Q") /\ MalformedMatch(last.questions[j]) = 0) =>
           SixMarkClean(last.questions[j], last.start)
             = C11_Record(last.questions[j], last.start)
  /\ (mode = "twelve" /\ last.kind = "generated") =>
       \A j \in 1..Len(last.questions) :
         (StartsWith(last.questions[j], "Q") /\ MalformedMatch(last.questions[j]) = 0) =>
           TwelveMarkRenumber(last.questions[j], last.start)
             = C11_Record(last.questions[j], last.start)

(***************************************************************************)
(* C12: a six-mark candidate with the malformed marker Q<n>.<digits> is    *)
(* emitted as Q<new n>. followed by the text that comes after the first    *)
(* decimal group: "Q17.5017 Explain clustering." given number 14 becomes   *)
(* "Q14. Explain clustering.".                                             *)
(***************************************************************************)
C12_Emitted(q, n) == "Q" \o ToString(n) \o "." \o SubSeq(q, MalformedMatch(q) + 1, Len(q))

C12_MalformedMarkerCleaned ==
  (mode = "six" /\ last.kind = "generated") =>
    \A j \in 1..Len(last.questions) : \A i \in 1..Len(last.accepted) :
      (/\ MalformedMatch(last.questions[j]) > 0
       /\ last.accepted[i] = SixMarkClean(last.questions[j], last.start + i - 1)) =>
        last.accepted[i] = C12_Emitted(last.questions[j], last.start + i - 1)

(***************************************************************************)
(* C13: for a syllabus with at least one heading line the segmenter        *)
(* returns one unit per heading line, in order, none empty; each unit is   *)
(* its heading line followed, separated by single spaces and in order, by  *)
(* the non-blank lines up to the next heading that are not hour-only       *)
(* lines, with the whitespace of the lines normalised.  A heading line     *)
(* holds the word UNIT, in any letter case, followed by a Roman numeral or *)
(* an Arabic number; an hour-only line is a number followed by "Hrs" or    *)
(* "Hours" in any letter case and nothing else.                            *)
(***************************************************************************)
C13_Lines == SplitLines(syllabus_text)

C13_IsHeading(line) == UnitPatternMatches(Upper(line))

C13_IsHourOnly(s) ==
  LET d == DigitRun(s, 1)
      w == SpaceRun(s, d + 1)
  IN  d >= 1 /\ Lower(SubSeq(s, d + w + 1, Len(s))) \in {"hrs", "hours"}

C13_Headings == {i \in 1..Len(C13_Lines) : C13_IsHeading(C13_Lines[i])}

C13_Rank(h) == Cardinality({i \in C13_Headings : i <= h})

\* The last line of the unit of heading h
C13_End(h) ==
  IF \E i \in C13_Headings : i > h
  THEN (CHOOSE i \in C13_Headings : i > h /\ \A k \in C13_Headings : k > h => i <= k) - 1
  ELSE Len(C13_Lines)

C13_Kept(i) == Strip(C13_Lines[i]) # "" /\ ~C13_IsHourOnly(Strip(C13_Lines[i]))

RECURSIVE C13_Body(_, _)
\* The kept lines i..e, each preceded by a space
C13_Body(i, e) ==
  IF i > e THEN ""
  ELSE (IF C13_Kept(i) THEN " " \o Strip(C13_Lines[i]) ELSE "") \o C13_Body(i + 1, e)

C13_Unit(h) == CleanUnit(Strip(C13_Lines[h]) \o C13_Body(h + 1, C13_End(h)))

C13_OneUnitPerHeading ==
  (mode = "segment" /\ pc = "segmented" /\ C13_Headings # {}) =>
    /\ units # <<>>
    /\ Len(units) = Cardinality(C13_Headings)
    /\ \A h \in C13_Headings : units[C13_Rank(h)] = C13_Unit(h)
    /\ \A k \in 1..Len(units) : units[k] # ""

(***************************************************************************)
(* C14: whatever the reference text, the unit and the budget max_chars,    *)
(* the excerpt returned by the extraction is at most max_chars characters  *)
(* long, with matching sentences and with the raw-text fallback alike.     *)
(***************************************************************************)
C14_ExcerptWithinBudget ==
  (mode = "extract" /\ pc = "extracted") => Len(excerpt) <= max_chars

(***************************************************************************)
(* C15: the six-mark fingerprint is taken over the candidate's own         *)
(* normalised text, so a candidate with the text of one already accepted   *)
(* for the unit is discarded whatever number it would get; in particular a *)
(* unit step accepts at most one question per distinct candidate text of   *)
(* its response.                                                           *)
(***************************************************************************)
C15_CandidateTexts ==
  {Hash(last.questions[j]) : j \in {k \in 1..Len(last.questions) :
                                      StartsWith(last.questions[k], "Q")}}

C15_SixMarkSameTextDiscarded ==
  (mode = "six" /\ last.kind = "generated") =>
    Len(last.accepted) <= Cardinality(C15_CandidateTexts)

(***************************************************************************)
(* C16: every fingerprint a run adds to the persisted history belongs to   *)
(* a question of the run's final tier output: each question accepted (and  *)
(* so recorded) by a six-mark or twelve-mark run is a record of the text   *)
(* the tier ends with, also after the cut to 8 or 10 and after a later     *)
(* unit's failure; each one-mark unit with accepted questions is in the    *)
(* one-mark section.                                                       *)
(***************************************************************************)
C16_RecordedQuestionsEmitted ==
  /\ (mode \in {"six", "twelve"} /\ pc = "done") =>
       \A i \in 1..Len(AcceptedQuestions) :
         AcceptedQuestions[i] \in Range(Records(tier_out))
  /\ (mode = "one" /\ last.kind = "generated") =>
       \E e \in 1..Len(all_one_mark_questions) :
         all_one_mark_questions[e][1] = last.unit

(***************************************************************************)
(* C17: the load / modify / save cycle of the history store has no mutual  *)
(* exclusion.  After every completed save the store holds, for the unit,   *)
(* the list the file held when the saving session loaded it followed by    *)
(* the fingerprints that session accepted, and nothing else: a fingerprint *)
(* the other session saved since that load, which the saver neither found  *)
(* at its load nor accepted itself, is absent from the store.  So a lost   *)
(* update is reachable, and the same question is accepted again by a       *)
(* session that loaded afterwards.                                         *)
(***************************************************************************)
C17_Stored == HistGet(file1, UnitName(units[1]))

C17_SaveReplacesStore ==
  (mode = "concurrent" /\ con_last.by # 0 /\ con_file.kind \in {"json", "torn"}) =>
    /\ C17_Stored = con_last.loaded \o con_last.added
    /\ \A j \in (con_last.seen + 1)..Len(con_log) :
         (/\ con_log[j].by # con_last.by
          /\ con_log[j].hash \notin Range(con_last.loaded)
          /\ con_log[j].hash \notin Range(con_last.added)) =>
           con_log[j].hash \notin Range(C17_Stored)

\* A fingerprint was saved, then lost to the save of the other session, which
\* had loaded the store before, and accepted again by a call that loaded the
\* store after the first save; the unit's name is one json.dump escapes
C17_Witness ==
  /\ mode = "concurrent"
  /\ con_file.kind = "json"
  /\ JsonStringLength(UnitName(units[1])) > Len(UnitName(units[1])) + 2
  /\ \E i, k \in 1..Len(con_log) :
       /\ i <= con_log[k].seen
       /\ con_log[i].hash = con_log[k].hash
       /\ \E j \in (i + 1)..(k - 1) :
            /\ con_log[j].by # con_log[i].by
            /\ con_log[j].seen < i

(***************************************************************************)
(* C18: a failure whose error text contains "429" or the phrase "rate      *)
(* limit" in any letter case is recognised as rate limiting, so while      *)
(* attempts remain it is never raised: the wrapper is still looping.       *)
(***************************************************************************)
C18_AnyCaseText(text) == Contains(text, "429") \/ Contains(Lower(text), "rate limit")

C18_RateLimitAnyCaseRetried ==
  (/\ mode = "retry"
   /\ r_last \in ErrTexts
   /\ C18_AnyCaseText(r_last)
   /\ r_calls <= MaxRetries) => r_pc = "loop"

(***************************************************************************)
(* C19: with the default configuration the nominal backoff before the k-th *)
(* retry is 2 * 2^(k-1) (2, 4, 8, 16, 32); every wait lies between 50% and *)
(* 150% of its nominal value and never exceeds 60; there are at most five  *)
(* waits, one after each failed attempt but the last, none after the final *)
(* failed attempt.  Waits are counted in hundredths of a time unit.        *)
(***************************************************************************)
C19_Nominal(k) == InitialDelay * ExponentialBase ^ (k - 1)

C19_BackoffSchedule ==
  mode = "retry" =>
    /\ Len(r_waits) <= MaxRetries
    /\ \A k \in 1..Len(r_waits) :
         /\ C19_Nominal(k) \in {2, 4, 8, 16, 32}
         /\ 2 * r_waits[k] >= 100 * C19_Nominal(k)
         /\ 2 * r_waits[k] <= 300 * C19_Nominal(k)
         /\ r_waits[k] <= MaxDelay * 100
    /\ r_pc = "loop" => /\ Len(r_waits) = r_calls
                        /\ r_delay = C19_Nominal(Len(r_waits) + 1)
    /\ r_pc # "loop" => Len(r_waits) = r_calls - 1

\* Six failed attempts: five waits, the fifth at the top of its jitter range,
\* and the sixth failure raised without a wait
C19_Witness ==
  /\ mode = "retry"
  /\ r_pc = "raised"
  /\ r_calls = MaxRetries + 1
  /\ Len(r_waits) = MaxRetries
  /\ r_waits[1] = 100
  /\ r_waits[MaxRetries] = 32 * 149

(***************************************************************************)
(* C20: the Relevance Extractor checks the budget before it appends, so at *)
(* every point of the walk the total length of the kept sentences is at    *)
(* most max_chars.                                                         *)
(***************************************************************************)
C20_KeptWithinBudget ==
  mode = "extract" => TotalLength(relevant_sentences) <= max_chars

(***************************************************************************)
(* C21: a line starts a new unit if and only if it contains, in any letter *)
(* case, the word UNIT followed by a Roman numeral or an Arabic number; a  *)
(* line in which the letters "unit" are only followed somewhere later by a *)
(* Roman-numeral letter or a digit starts no unit.  After an iteration of  *)
(* the walk the current unit is the stripped line exactly when the line    *)
(* started a unit.                                                         *)
(***************************************************************************)
C21_WordUnitThenNumeral(line) == UnitPatternMatches(Upper(line))

C21_BoundaryIffUnitNumeral ==
  (mode = "segment" /\ pc = "idle" /\ line_no > 1) =>
    LET line == SplitLines(syllabus_text)[line_no - 1]
    IN  (Strip(line) # "" /\ current_unit = Strip(line)) <=> C21_WordUnitThenNumeral(line)

(***************************************************************************)
(* C22: inside a unit a non-boundary line that is only a number followed   *)
(* by "Hrs" or "Hours", in any letter case, is dropped, and every other    *)
(* non-blank non-boundary line is appended to the current unit: each unit  *)
(* found is its heading followed by exactly those lines.                   *)
(***************************************************************************)
C22_IsHourLine(s) ==
  LET d == DigitRun(s, 1)
      w == SpaceRun(s, d + 1)
  IN  d >= 1 /\ Lower(SubSeq(s, d + w + 1, Len(s))) \in {"hrs", "hours"}

\* The lines the segmenter takes for unit boundaries
C22_Headings == {i \in 1..Len(C13_Lines) : IsUnitLine(C13_Lines[i])}

C22_Rank(h) == Cardinality({i \in C22_Headings : i <= h})

\* The last line of the unit that begins at boundary h
C22_End(h) ==
  IF \E i \in C22_Headings : i > h
  THEN (CHOOSE i \in C22_Headings : i > h /\ \A k \in C22_Headings : k > h => i <= k) - 1
  ELSE Len(C13_Lines)

C22_Kept(i) == Strip(C13_Lines[i]) # "" /\ ~C22_IsHourLine(Strip(C13_Lines[i]))

RECURSIVE C22_Body(_, _)
C22_Body(i, e) ==
  IF i > e THEN ""
  ELSE (IF C22_Kept(i) THEN " " \o Strip(C13_Lines[i]) ELSE "") \o C22_Body(i + 1, e)

C22_HourLinesDroppedAnyCase ==
  (mode = "segment" /\ pc = "segmented" /\ C22_Headings # {}) =>
    \A h \in C22_Headings :
      /\ C22_Rank(h) <= Len(units)
      /\ units[C22_Rank(h)] = CleanUnit(Strip(C13_Lines[h]) \o C22_Body(h + 1, C22_End(h)))

(***************************************************************************)
(* C23: in the assembled one-mark section the numbers of the question      *)
(* records strictly increase in output order, so no two records carry the  *)
(* same number, whatever the mix of fully served, partially served, empty  *)
(* and failed (placeholder) units.  A question record is a block of a      *)
(* unit's text that begins with a marker Q<n>.                             *)
(***************************************************************************)
C23_IsNumber(n) == n >= 0

RECURSIVE C23_SectionNumbers(_)
\* The marker numbers of the question records of the section, in output order
C23_SectionNumbers(entries) ==
  IF entries = <<>> THEN <<>>
  ELSE SelectSeq(RecordNumbers(entries[1][2]), C23_IsNumber)
       \o C23_SectionNumbers(Tail(entries))

C23_OneMarkNumbersIncrease ==
  mode = "one" =>
    LET numbers == C23_SectionNumbers(all_one_mark_questions)
    IN  \A i, j \in 1..Len(numbers) : i < j => numbers[i] < numbers[j]

\* Three units, two questions each: one failed (placeholders), one partially
\* served (a gap in the numbers), one fully served
C23_Witness ==
  /\ mode = "one"
  /\ pc = "done"
  /\ questions_per_unit = 2
  /\ Len(all_one_mark_questions) = 3
  /\ \E k \in 1..3 : StartsWith(all_one_mark_questions[k][2], "**")
  /\ LET numbers == C23_SectionNumbers(all_one_mark_questions)
     IN  /\ Len(numbers) = 5
         /\ \E i \in 1..4 : numbers[i + 1] = numbers[i] + 2

(***************************************************************************)
(* C24: when the generation for a unit fails in the one-mark tier, the     *)
(* persisted one-mark history store after the unit's step is exactly what  *)
(* it was before the step, and the six-mark and twelve-mark stores are     *)
(* untouched.                                                              *)
(***************************************************************************)
C24_FailedUnitLeavesStores ==
  [][(mode = "one" /\ pc = "loop" /\ idx' = idx + 1 /\ last'.kind = "failed") =>
       (file1' = file1 /\ file6' = file6 /\ file12' = file12)]_vars

\* A unit fails on a run that found fingerprints of that unit in the store
C24_Witness ==
  /\ mode = "one"
  /\ last.kind = "failed"
  /\ last.before # <<>>
  /\ HistGet(file1, UnitName(last.unit)) = last.before

(***************************************************************************)
(* C25: under sequential runs each tier's persisted history only grows:    *)
(* over every step, every unit key of a store is still there afterwards    *)
(* and its stored list is a prefix of the new list - nothing is removed    *)
(* or reordered - also when a unit yields nothing or a later unit fails.   *)
(***************************************************************************)
C25_IsPrefix(a, b) == Len(a) <= Len(b) /\ SubSeq(b, 1, Len(a)) = a

C25_Grows(stored, saved) ==
  \A k \in DOMAIN stored : k \in DOMAIN saved /\ C25_IsPrefix(stored[k], saved[k])

C25_GrowingStep ==
  mode \in {"one", "six", "twelve"} =>
    /\ C25_Grows(file1, file1')
    /\ C25_Grows(file6, file6')
    /\ C25_Grows(file12, file12')

C25_HistoryOnlyGrows == [][C25_GrowingStep]_vars

\* A later run of the six-mark tier: a unit is stored with nothing accepted,
\* and then a unit that has stored fingerprints fails
C25_Witness ==
  /\ mode = "six"
  /\ calls > Len(units)
  /\ last.kind = "failed"
  /\ last.before # <<>>
  /\ file6[UnitName(last.unit)] = last.before
  /\ \E k \in DOMAIN file6 : file6[k] = <<>>

=============================================================================
